---- MODULE Spec2Model ----
(***************************************************************************)
(* duolingo_checker: a vocabulary export (one record per line, fields      *)
(* terminated by TAB) is parsed into DuolingoWord records, the notes of an *)
(* Anki database are split on 0x1F into fields and collected into a set,   *)
(* and every record whose word is not in that set is printed, followed by  *)
(* the number of records printed.                                          *)
(*                                                                         *)
(* A string is a sequence of characters; a character is a one-element      *)
(* TLA+ string.                                                            *)
(***************************************************************************)
EXTENDS Integers, Sequences, FiniteSets, TLC

VARIABLES
    pc,              \* where main is: "get_words", "anki", "diff", "done", "panicked"
    content,         \* duolingo_contents, the text handed to get_words
    rest,            \* what content.lines() has not yet yielded
    line,            \* the loop variable of get_words: the line last taken
    words,           \* the Vec get_words pushes to
    result,          \* what get_words returned (NotReturned while it runs)
    anki_fields,     \* the note strings read from the database
    anki_words,      \* the field lists get_words_from_fields made of them
    word_map,        \* the HashSet build_word_map returned
    duolingo_words,  \* the records main still has to look at
    num,             \* main's counter
    out              \* the lines written to standard output

vars == <<pc, content, rest, line, words, result, anki_fields, anki_words,
          word_map, duolingo_words, num, out>>

---------------------------------------------------------------------------
(* Characters *)

TAB == "\t"
LF == "\n"
CR == "\r"
US == "\\x1f"

(* Bounds of the model *)

MaxContentLen == 8
MaxNoteLen == 2
MaxNotes == 2

ContentChars == {"a", TAB, LF, CR}
NoteChars == {"a", "b", US}

Strings(chars, n) == UNION {[1..k -> chars] : k \in 0..n}

SeqsUpTo(S, n) == UNION {[1..k -> S] : k \in 0..n}

NoLine == <<"<none>">>
NotReturned == [tag |-> "NotReturned"]

---------------------------------------------------------------------------
(* str::find(c): the index of the first c in s, 0 when there is none *)

RECURSIVE FindFrom(_, _, _)
FindFrom(s, c, i) ==
    IF i > Len(s) THEN 0
    ELSE IF s[i] = c THEN i
    ELSE FindFrom(s, c, i + 1)

Find(s, c) == FindFrom(s, c, 1)

(***************************************************************************)
(* content.lines(): the next item of the iterator over `r`, the text not   *)
(* yet consumed.  Lines end at "\n"; a final line needs no terminator and  *)
(* an empty remainder ends the iteration (no empty last line).  A "\r"     *)
(* right before the "\n" is removed.  A bare "\r" ending an unterminated   *)
(* last line is removed by the standard library of the time of the code    *)
(* and kept by later ones: both outcomes are allowed.                      *)
(***************************************************************************)
StripCR(s) ==
    IF Len(s) > 0 /\ s[Len(s)] = CR THEN SubSeq(s, 1, Len(s) - 1) ELSE s

(* lines() that passes over empty lines *)
RECURSIVE NextLineSkipEmpty(_)
NextLineSkipEmpty(r) ==
    LET i == Find(r, LF) IN
    IF i = 0
    THEN {[line |-> l, rest |-> <<>>] : l \in {r, StripCR(r)}}
    ELSE IF StripCR(SubSeq(r, 1, i - 1)) = <<>> /\ i < Len(r)
    THEN NextLineSkipEmpty(SubSeq(r, i + 1, Len(r)))
    ELSE {[line |-> StripCR(SubSeq(r, 1, i - 1)), rest |-> SubSeq(r, i + 1, Len(r))]}

NextLine(r) ==
    LET i == Find(r, LF) IN
    IF i = 0
    THEN {[line |-> l, rest |-> <<>>] : l \in {r, StripCR(r)}}
    ELSE {[line |-> StripCR(SubSeq(r, 1, i - 1)), rest |-> SubSeq(r, i + 1, Len(r))]}

(***************************************************************************)
(* section: take_until_and_consume_s!("\t") on input i.  Incomplete when   *)
(* the input is shorter than the separator, Error when it holds no         *)
(* separator, otherwise Done with the text before the separator and the    *)
(* input after it.                                                         *)
(***************************************************************************)
(* take_until! in place of take_until_and_consume!: the separator stays *)
SectionNoConsume(i) ==
    LET t == Find(i, TAB) IN
    IF Len(i) < 1 THEN [tag |-> "Incomplete"]
    ELSE IF t = 0 THEN [tag |-> "Error"]
    ELSE [tag |-> "Done", rest |-> SubSeq(i, t, Len(i)), val |-> SubSeq(i, 1, t - 1)]

Section(i) ==
    LET t == Find(i, TAB) IN
    IF Len(i) < 1 THEN [tag |-> "Incomplete"]
    ELSE IF t = 0 THEN [tag |-> "Error"]
    ELSE [tag |-> "Done", rest |-> SubSeq(i, t + 1, Len(i)), val |-> SubSeq(i, 1, t - 1)]

(* parse: do_parse!(word: section >> word_class: section >> last_studied: section) *)
Parse(i) ==
    LET s1 == Section(i) IN
    IF s1.tag # "Done" THEN [tag |-> s1.tag] ELSE
    LET s2 == Section(s1.rest) IN
    IF s2.tag # "Done" THEN [tag |-> s2.tag] ELSE
    LET s3 == Section(s2.rest) IN
    IF s3.tag # "Done" THEN [tag |-> s3.tag] ELSE
    [tag |-> "Done", rest |-> s3.rest,
     val |-> [word |-> s1.val, word_class |-> s2.val, last_studied |-> s3.val]]

---------------------------------------------------------------------------
(* impl Display for DuolingoWord *)

WordLabel == <<"W", "o", "r", "d", ":", " ">>
TypeLabel == <<"T", "y", "p", "e", ":", " ">>
LastStudiedLabel == <<"L", "a", "s", "t", " ", "S", "t", "u", "d", "i", "e", "d", ":", " ">>

(* a format string with blanks where the TABs are *)
DisplayBlanks(w) ==
    WordLabel \o w.word \o <<" ">> \o TypeLabel \o w.word_class \o <<" ">>
        \o LastStudiedLabel \o w.last_studied

Display(w) ==
    WordLabel \o w.word \o <<TAB>> \o TypeLabel \o w.word_class \o <<TAB>>
        \o LastStudiedLabel \o w.last_studied

(* Display of the integer num: its decimal digits *)
Digit(d) == <<"0", "1", "2", "3", "4", "5", "6", "7", "8", "9">>[d + 1]

RECURSIVE DisplayNum(_)
DisplayNum(n) ==
    IF n < 10 THEN <<Digit(n)>> ELSE DisplayNum(n \div 10) \o <<Digit(n % 10)>>

---------------------------------------------------------------------------
(* to_fields: fields.split('\x1f').collect() *)

(* split that drops the empty segments *)
RECURSIVE to_fields_no_empty(_)
to_fields_no_empty(fields) ==
    LET i == Find(fields, US) IN
    IF i = 0 THEN (IF fields = <<>> THEN <<>> ELSE <<fields>>)
    ELSE (IF i = 1 THEN <<>> ELSE <<SubSeq(fields, 1, i - 1)>>)
             \o to_fields_no_empty(SubSeq(fields, i + 1, Len(fields)))

RECURSIVE to_fields(_)
to_fields(fields) ==
    LET i == Find(fields, US) IN
    IF i = 0 THEN <<fields>>
    ELSE <<SubSeq(fields, 1, i - 1)>> \o to_fields(SubSeq(fields, i + 1, Len(fields)))

(* get_words_from_fields: to_fields mapped over the notes, in order *)
get_words_from_fields(fields) == [k \in 1..Len(fields) |-> to_fields(fields[k])]

(* build_word_map: insert every field of every list into a set *)
RECURSIVE InsertFields(_, _)
InsertFields(map, fields) ==
    IF fields = <<>> THEN map
    ELSE InsertFields(map \cup {Head(fields)}, Tail(fields))

RECURSIVE BuildFrom(_, _)
BuildFrom(map, ws) ==
    IF ws = <<>> THEN map
    ELSE BuildFrom(InsertFields(map, Head(ws)), Tail(ws))

(* only the first field of every list is inserted *)
build_word_map_first(ws) ==
    {ws[k][1] : k \in {j \in 1..Len(ws) : ws[j] # <<>>}}

build_word_map(ws) == BuildFrom({}, ws)

---------------------------------------------------------------------------
(* The inputs *)

Contents == Strings(ContentChars, MaxContentLen)

Notes == Strings(NoteChars, MaxNoteLen)

(* What "SELECT flds FROM notes" can return in the runs of Spec *)
DiffCorpora ==
    { <<>>, << <<"a">> >>, << <<>> >>, << <<"a", US>> >>,
      << <<"a", "a">>, <<US, "a">> >> }

(* ... and in the runs of SpecAnki *)
AllCorpora == SeqsUpTo(Notes, MaxNotes)

(* The vocabulary exports of the runs of SpecAnki *)
AnkiContents ==
    { <<>>,
      <<"a">>,
      <<"a", TAB, TAB, TAB>>,
      <<"a", TAB, TAB, TAB, LF, "b", TAB, TAB, TAB>>,
      <<"a", "b", TAB, TAB, TAB, CR, LF, "b", TAB, "a", TAB, TAB, LF, TAB, TAB, TAB, LF>> }

InitWith(cs) ==
    /\ content \in cs
    /\ rest = content
    /\ pc = "get_words"
    /\ line = NoLine
    /\ words = <<>>
    /\ result = NotReturned
    /\ anki_fields = <<>>
    /\ anki_words = <<>>
    /\ word_map = {}
    /\ duolingo_words = <<>>
    /\ num = 0
    /\ out = <<>>

Init == InitWith(Contents)

InitAnki == InitWith(AnkiContents)

---------------------------------------------------------------------------
(* the record goes to the front of the Vec *)
ParseLineFront ==
    /\ pc = "get_words"
    /\ rest # <<>>
    /\ \E n \in NextLine(rest) :
          /\ Parse(n.line).tag = "Done"
          /\ line' = n.line
          /\ rest' = n.rest
          /\ words' = <<Parse(n.line).val>> \o words
    /\ UNCHANGED <<pc, content, result, anki_fields, anki_words, word_map, duolingo_words, num, out>>

(* the record is printed as soon as it is parsed *)
ParseLineStreaming ==
    /\ pc = "get_words"
    /\ rest # <<>>
    /\ \E n \in NextLine(rest) :
          /\ Parse(n.line).tag = "Done"
          /\ line' = n.line
          /\ rest' = n.rest
          /\ words' = Append(words, Parse(n.line).val)
          /\ out' = Append(out, Display(Parse(n.line).val))
    /\ UNCHANGED <<pc, content, result, anki_fields, anki_words, word_map, duolingo_words, num>>

(* get_words: one iteration of the loop whose line parses *)
ParseLine ==
    /\ pc = "get_words"
    /\ rest # <<>>
    /\ \E n \in NextLine(rest) :
          /\ Parse(n.line).tag = "Done"
          /\ line' = n.line
          /\ rest' = n.rest
          /\ words' = Append(words, Parse(n.line).val)
    /\ UNCHANGED <<pc, content, result, anki_fields, anki_words, word_map, duolingo_words, num, out>>

(* the line that does not parse is passed over *)
ParseSkip ==
    /\ pc = "get_words"
    /\ rest # <<>>
    /\ \E n \in NextLine(rest) :
          /\ Parse(n.line).tag # "Done"
          /\ line' = n.line
          /\ rest' = n.rest
    /\ UNCHANGED <<pc, content, words, result, anki_fields, anki_words, word_map,
                   duolingo_words, num, out>>

(* get_words: the iteration whose line does not parse returns Err, and     *)
(* main panics with the reason                                             *)
ParseFail ==
    /\ pc = "get_words"
    /\ rest # <<>>
    /\ \E n \in NextLine(rest) :
          /\ Parse(n.line).tag # "Done"
          /\ line' = n.line
          /\ rest' = n.rest
          /\ result' = [tag |-> "Err", reason |-> Parse(n.line).tag]
    /\ pc' = "panicked"
    /\ UNCHANGED <<content, words, anki_fields, anki_words, word_map, duolingo_words, num, out>>

(* get_words: the lines are exhausted, Ok(words) goes to main *)
ParseDone ==
    /\ pc = "get_words"
    /\ rest = <<>>
    /\ result' = [tag |-> "Ok", words |-> words]
    /\ duolingo_words' = words
    /\ pc' = "anki"
    /\ UNCHANGED <<content, rest, line, words, anki_fields, anki_words, word_map, num, out>>

(* main: read the notes, split them, build the set *)
ReadAnki(corpora) ==
    /\ pc = "anki"
    /\ \E fs \in corpora :
          /\ anki_fields' = fs
          /\ anki_words' = get_words_from_fields(fs)
          /\ word_map' = build_word_map(get_words_from_fields(fs))
    /\ pc' = "diff"
    /\ UNCHANGED <<content, rest, line, words, result, duolingo_words, num, out>>

ReadAnkiDiff == ReadAnki(DiffCorpora)

ReadAnkiAll == ReadAnki(AllCorpora)

(* a word already reported is not reported again *)
DiffStepDedup ==
    /\ pc = "diff"
    /\ duolingo_words # <<>>
    /\ LET word == Head(duolingo_words) IN
          IF /\ word.word \notin word_map
             /\ \A k \in 1..(Len(result.words) - Len(duolingo_words)) :
                    result.words[k].word # word.word
          THEN /\ out' = Append(out, Display(word))
               /\ num' = num + 1
          ELSE UNCHANGED <<out, num>>
    /\ duolingo_words' = Tail(duolingo_words)
    /\ UNCHANGED <<pc, content, rest, line, words, result, anki_fields, anki_words, word_map>>

(* the test without its negation *)
DiffStepInverted ==
    /\ pc = "diff"
    /\ duolingo_words # <<>>
    /\ LET word == Head(duolingo_words) IN
          IF word.word \in word_map
          THEN /\ out' = Append(out, Display(word))
               /\ num' = num + 1
          ELSE UNCHANGED <<out, num>>
    /\ duolingo_words' = Tail(duolingo_words)
    /\ UNCHANGED <<pc, content, rest, line, words, result, anki_fields, anki_words, word_map>>

(* main: one iteration of the loop over duolingo_words *)
DiffStep ==
    /\ pc = "diff"
    /\ duolingo_words # <<>>
    /\ LET word == Head(duolingo_words) IN
          IF word.word \notin word_map
          THEN /\ out' = Append(out, Display(word))
               /\ num' = num + 1
          ELSE UNCHANGED <<out, num>>
    /\ duolingo_words' = Tail(duolingo_words)
    /\ UNCHANGED <<pc, content, rest, line, words, result, anki_fields, anki_words, word_map>>

(* main: println!("{}", num) after the loop *)
PrintNum ==
    /\ pc = "diff"
    /\ duolingo_words = <<>>
    /\ out' = Append(out, DisplayNum(num))
    /\ pc' = "done"
    /\ UNCHANGED <<content, rest, line, words, result, anki_fields, anki_words, word_map,
                   duolingo_words, num>>

Next == ParseLine \/ ParseFail \/ ParseDone \/ ReadAnkiDiff \/ DiffStep \/ PrintNum

Spec == Init /\ [][Next]_vars

NextAnki == ParseLine \/ ParseFail \/ ParseDone \/ ReadAnkiAll \/ DiffStep \/ PrintNum

SpecAnki == InitAnki /\ [][NextAnki]_vars

---------------------------------------------------------------------------
(* What the properties below are stated with: the text cut at every        *)
(* occurrence of a character, by the positions of the occurrences          *)

Positions(s, c) == {i \in 1..Len(s) : s[i] = c}

(* the n-th smallest element of the set of positions P *)
NthPos(P, n) == CHOOSE i \in P : Cardinality({j \in P : j < i}) = n - 1

(* the segments of s between the occurrences of c, empty ones included *)
Pieces(s, c) ==
    LET P == Positions(s, c)
        n == Cardinality(P)
        first(k) == IF k = 1 THEN 1 ELSE NthPos(P, k - 1) + 1
        last(k) == IF k = n + 1 THEN Len(s) ELSE NthPos(P, k) - 1
    IN  [k \in 1..(n + 1) |-> SubSeq(s, first(k), last(k))]

RECURSIVE JoinWith(_, _)
JoinWith(ps, c) ==
    IF Len(ps) = 1 THEN ps[1]
    ELSE ps[1] \o <<c>> \o JoinWith(Tail(ps), c)

TabCount(l) == Cardinality(Positions(l, TAB))

(* the record a line with three TABs or more stands for *)
RecordOf(l) ==
    LET p == Pieces(l, TAB) IN
    [word |-> p[1], word_class |-> p[2], last_studied |-> p[3]]

(* the line up to and including its third TAB *)
ThroughThirdTab(l) == SubSeq(l, 1, NthPos(Positions(l, TAB), 3))

WithoutFinalCR(l) ==
    IF l # <<>> /\ l[Len(l)] = CR THEN SubSeq(l, 1, Len(l) - 1) ELSE l

(* The lines of a text: what lies between its "\n"s, nothing after a final *)
(* "\n" (and nothing at all in an empty text), a "\r" before the           *)
(* terminator not being part of the line                                   *)
LinesOf(c) ==
    LET p == Pieces(c, LF)
        n == IF p[Len(p)] = <<>> THEN Len(p) - 1 ELSE Len(p)
    IN  [k \in 1..n |-> WithoutFinalCR(p[k])]

NonEmptyLinesOf(c) == SelectSeq(LinesOf(c), LAMBDA l : l # <<>>)

WellFormed(c) == \A k \in 1..Len(LinesOf(c)) : TabCount(LinesOf(c)[k]) >= 3

Returned == result # NotReturned

Range(q) == {q[k] : k \in 1..Len(q)}

Reverse(q) == [k \in 1..Len(q) |-> q[Len(q) + 1 - k]]

Orders(n) == {f \in [1..n -> 1..n] : \A i, j \in 1..n : f[i] = f[j] => i = j}

---------------------------------------------------------------------------
(* C1: when a line of the content has fewer than three TABs, get_words     *)
(* returns Err and no records, whatever well-formed lines came before;     *)
(* main then holds no record and prints nothing.                           *)
C1_FailFast ==
    (Returned /\ ~WellFormed(content)) =>
        /\ result.tag = "Err"
        /\ DOMAIN result = {"tag", "reason"}
        /\ pc = "panicked"
        /\ duolingo_words = <<>>

(* a run that failed on a line with no TAB after a record had been parsed *)
C1_Witness ==
    /\ pc = "panicked"
    /\ result.tag = "Err"
    /\ result.reason = "Error"
    /\ Len(words) >= 1

(* C2: for a content all of whose lines have three TABs, get_words returns *)
(* as many records as the content has non-empty lines, the i-th record     *)
(* being the one of the i-th such line.                                    *)
C2_OneRecordPerLine ==
    (Returned /\ WellFormed(content)) =>
        /\ result.tag = "Ok"
        /\ Len(result.words) = Len(NonEmptyLinesOf(content))
        /\ \A i \in 1..Len(result.words) :
              result.words[i] = RecordOf(NonEmptyLinesOf(content)[i])

(* two different records returned *)
C2_Witness ==
    /\ Returned
    /\ result.tag = "Ok"
    /\ Len(result.words) = 2
    /\ result.words[1] # result.words[2]

(* C3: when main is done, the output is the rendering of the records whose *)
(* word is not in the known set, in input order, repeated words included,  *)
(* followed by the number of those records; while it loops, num is the     *)
(* number of lines printed.                                                *)
Unknown == SelectSeq(result.words, LAMBDA r : r.word \notin word_map)

C3_Diff ==
    /\ pc = "diff" => num = Len(out)
    /\ pc = "done" =>
          /\ Len(out) = Len(Unknown) + 1
          /\ \A i \in 1..Len(Unknown) : out[i] = Display(Unknown[i])
          /\ out[Len(out)] = DisplayNum(Len(Unknown))

(* two records with the same unknown word and different fields, both       *)
(* reported                                                                *)
C3_Witness ==
    /\ pc = "done"
    /\ Len(result.words) = 2
    /\ result.words[1].word = result.words[2].word
    /\ result.words[1] # result.words[2]
    /\ Len(out) = 3
    /\ out[3] = <<"2">>

(* C4: nothing is printed in a run whose parse fails; whenever something   *)
(* has been printed, get_words has returned Ok for a content all of whose  *)
(* lines are well formed.                                                  *)
C4_NoPartialReport ==
    /\ out # <<>> => (Returned /\ result.tag = "Ok" /\ WellFormed(content))
    /\ pc = "panicked" => out = <<>>

(* a run that failed after one record, with lines still unread *)
C4_Witness ==
    /\ pc = "panicked"
    /\ Len(words) = 1
    /\ rest # <<>>

(* C5 as stated: the rendered line of every parsed record gives the record *)
(* back, through the line parser or at least through its first three       *)
(* TAB-delimited segments.                                                 *)
C5_RoundTrip ==
    \A i \in 1..Len(words) :
        LET l == Display(words[i]) IN
        \/ Parse(l).tag = "Done" /\ Parse(l).val = words[i]
        \/ Len(Pieces(l, TAB)) >= 3 /\ RecordOf(l) = words[i]

(* C5 as amended: the rendered line of a parsed record has exactly two     *)
(* TABs, so the line parser rejects it, and its three TAB-delimited        *)
(* segments are the three fields each behind its label.                    *)
C5_LabelledSegments ==
    \A i \in 1..Len(words) :
        LET l == Display(words[i]) IN
        /\ Parse(l).tag = "Error"
        /\ Pieces(l, TAB) = << WordLabel \o words[i].word,
                               TypeLabel \o words[i].word_class,
                               LastStudiedLabel \o words[i].last_studied >>

(* a parsed record with three non-empty fields *)
C5_Witness ==
    /\ Len(words) >= 1
    /\ words[1].word # <<>>
    /\ words[1].word_class # <<>>
    /\ words[1].last_studied # <<>>

(* C6: a line with three TABs or more parses, to the record of the texts   *)
(* before its first, between its first and second and between its second   *)
(* and third TAB; the line cut after its third TAB parses to the same      *)
(* record.                                                                 *)
C6_LineParser ==
    TabCount(line) >= 3 =>
        /\ result.tag # "Err"
        /\ words # <<>>
        /\ words[Len(words)] = RecordOf(line)
        /\ Parse(ThroughThirdTab(line)).tag = "Done"
        /\ Parse(ThroughThirdTab(line)).val = words[Len(words)]

(* a parsed line with a fourth field and text after its last TAB *)
C6_Witness ==
    /\ TabCount(line) >= 4
    /\ line[Len(line)] # TAB
    /\ words # <<>>
    /\ words[Len(words)].word # <<>>

(* C7: every field list is the note cut at every 0x1F, empty segments      *)
(* kept: one element more than the note has separators, and the note       *)
(* again when joined with 0x1F.                                            *)
C7_FieldSplitter ==
    pc \in {"diff", "done"} =>
        /\ Len(anki_words) = Len(anki_fields)
        /\ \A k \in 1..Len(anki_fields) :
              /\ Len(anki_words[k]) = Cardinality(Positions(anki_fields[k], US)) + 1
              /\ \A j \in 1..Len(anki_words[k]) : US \notin Range(anki_words[k][j])
              /\ JoinWith(anki_words[k], US) = anki_fields[k]
              /\ anki_words[k] = Pieces(anki_fields[k], US)

(* a note with an empty segment and a note without separator *)
C7_Witness ==
    /\ pc = "diff"
    /\ Len(anki_fields) = 2
    /\ anki_fields[1] = <<US, "a">>
    /\ anki_words[1] = << <<>>, <<"a">> >>
    /\ anki_fields[2] = <<"a", "b">>
    /\ anki_words[2] = << <<"a", "b">> >>

(* C8: the set holds a token exactly when some field list holds it, and    *)
(* it is the set of the lists in any other order, of the lists reversed    *)
(* and of the lists with every token repeated.                             *)
C8_KnownWordIndex ==
    pc \in {"diff", "done"} =>
        /\ \A k \in 1..Len(anki_words) : Range(anki_words[k]) \subseteq word_map
        /\ \A t \in word_map : \E k \in 1..Len(anki_words) : t \in Range(anki_words[k])
        /\ \A f \in Orders(Len(anki_words)) :
              build_word_map([k \in 1..Len(anki_words) |-> anki_words[f[k]]]) = word_map
        /\ build_word_map([k \in 1..Len(anki_words) |-> Reverse(anki_words[k])]) = word_map
        /\ build_word_map([k \in 1..Len(anki_words) |-> anki_words[k] \o anki_words[k]]) = word_map
        /\ build_word_map(anki_words \o anki_words) = word_map

(* two lists sharing a token, one of them with a second, empty, token *)
C8_Witness ==
    /\ pc = "diff"
    /\ anki_words = << << <<"a">>, <<>> >>, << <<"a">> >> >>
    /\ word_map = {<<"a">>, <<>>}

(* C9: with no note in the corpus the known set is empty and every record  *)
(* is reported: the output is the rendering of every parsed record, in     *)
(* order, and then their number.                                           *)
C9_EmptyCorpus ==
    (pc \in {"diff", "done"} /\ anki_fields = <<>>) =>
        /\ word_map = {}
        /\ pc = "done" =>
              /\ out = [i \in 1..(Len(result.words) + 1) |->
                           IF i <= Len(result.words) THEN Display(result.words[i])
                           ELSE DisplayNum(Len(result.words))]
              /\ num = Len(result.words)

(* a finished run over two records and an empty corpus *)
C9_Witness ==
    /\ pc = "done"
    /\ anki_fields = <<>>
    /\ Len(result.words) = 2
    /\ num = 2

(* C10: get_words returns Ok exactly when every line of the content, the   *)
(* empty ones included, has three TABs or more, and then one record per    *)
(* line; a terminator at the very end adds no line.                        *)
C10_OkIffEveryLine ==
    Returned =>
        /\ result.tag = "Ok" <=>
              \A k \in 1..Len(LinesOf(content)) : TabCount(LinesOf(content)[k]) >= 3
        /\ (\E k \in 1..Len(LinesOf(content)) : LinesOf(content)[k] = <<>>) =>
              result.tag = "Err"
        /\ result.tag = "Ok" => Len(result.words) = Len(LinesOf(content))
        /\ (result.tag = "Ok" /\ content # <<>> /\ content[Len(content)] = LF) =>
              Len(result.words) = Cardinality(Positions(content, LF))

(* the parse failed on an empty line lying between two records *)
C10_Witness ==
    /\ pc = "panicked"
    /\ line = <<>>
    /\ Len(words) = 1
    /\ TabCount(rest) >= 3
    /\ LF \notin Range(rest)

====
